---- MODULE Spec2Model ----
(***************************************************************************)
(* A model of cfgmap (src/cfgmap/src/cfgmap.rs): the CfgValue tagged       *)
(* union, the path-addressed CfgMap (new, with_default, add, get, get_mut, *)
(* contains_key, get_option, update_option) and Checkable::check_that.     *)
(*                                                                         *)
(* A Rust String is a sequence of one-character strings, so that the       *)
(* splitting and the concatenation of paths are computed character by      *)
(* character as the code computes them.                                    *)
(***************************************************************************)
EXTENDS Integers, Sequences, FiniteSets, TLC

VARIABLES
    cmap,       \* the root CfgMap the client holds
    ctor,       \* how cmap was constructed: Option<String> (None for new())
    old,        \* cmap as it was just before the last call
    op,         \* name of the last call
    category,   \* the `category` argument of the last call
    key,        \* the `key` (or `option`) argument of the last call
    value,      \* the `value` (or `to`) argument of the last call
    ret,        \* what the last call returned
    subject,    \* check_that: the Option<&CfgValue> under test
    condition,  \* check_that: the Condition
    verdict     \* check_that: the result, "pending" before the call

vars == <<cmap, ctor, old, op, category, key, value, ret, subject, condition, verdict>>

-----------------------------------------------------------------------------
(* Bounds                                                                  *)

\* longest path, in segments, a client passes to the map
MaxSegs == 3
\* most entries (counted over all nested maps) the tree grows to
MaxEntries == 3
\* nesting depth of the combinators of a Condition
MaxCondDepth == 2

-----------------------------------------------------------------------------
(* Option and Result                                                       *)

None == [tag |-> "None", val |-> <<>>]
Some(x) == [tag |-> "Some", val |-> <<x>>]
is_some(o) == o.tag = "Some"
is_none(o) == o.tag = "None"
unwrap(o) == o.val[1]

Ok(x) == [tag |-> "Ok", val |-> <<x>>]
Err == [tag |-> "Err", val |-> <<>>]
is_ok(r) == r.tag = "Ok"
is_err(r) == r.tag = "Err"

\* Option::or
or(a, b) == IF is_some(a) THEN a ELSE b

-----------------------------------------------------------------------------
(* CfgValue                                                                *)

CfgValue(t, n, s, b, m, l) == [tag |-> t, n |-> n, s |-> s, b |-> b, m |-> m, l |-> l]
IntV(n)   == CfgValue("Int",   n, <<>>, FALSE, <<>>, <<>>)
FloatV(x) == CfgValue("Float", x, <<>>, FALSE, <<>>, <<>>)
StrV(s)   == CfgValue("Str",   0, s,    FALSE, <<>>, <<>>)
BoolV(b)  == CfgValue("Bool",  0, <<>>, b,     <<>>, <<>>)
MapV(m)   == CfgValue("Map",   0, <<>>, FALSE, <<m>>, <<>>)
ListV(l)  == CfgValue("List",  0, <<>>, FALSE, <<>>, l)

is_map(v) == v.tag = "Map"
\* as_map / as_map_mut: Option of the nested CfgMap
as_map(v) == IF v.tag = "Map" THEN Some(v.m[1]) ELSE None
as_map_mut(v) == IF v.tag = "Map" THEN Some(v.m[1]) ELSE None

-----------------------------------------------------------------------------
(* Strings and the two splitters                                           *)

SEP == "/"

\* str::find(pat): the first index at or after i holding pat, 0 when there
\* is none
RECURSIVE find_from(_, _)
find_from(s, i) ==
    IF i > Len(s) THEN 0 ELSE IF s[i] = SEP THEN i ELSE find_from(s, i + 1)

find(s) == find_from(s, 1)

\* the split point of rsplitn(2, pat): the last index at or before i holding
\* pat, 0 when there is none
RECURSIVE rfind_from(_, _)
rfind_from(s, i) ==
    IF i < 1 THEN 0 ELSE IF s[i] = SEP THEN i ELSE rfind_from(s, i - 1)

rfind(s) == rfind_from(s, Len(s))

\* a split_once that splits at the last separator
split_once_last(s) ==
    IF find(s) = 0
    THEN [h |-> s, t |-> None]
    ELSE [h |-> SubSeq(s, 1, rfind(s) - 1), t |-> Some(SubSeq(s, rfind(s) + 1, Len(s)))]

\* split_once(in_string, '/') -> (String, Option<String>)
split_once(s) ==
    IF find(s) = 0
    THEN [h |-> s, t |-> None]
    ELSE [h |-> SubSeq(s, 1, find(s) - 1), t |-> Some(SubSeq(s, find(s) + 1, Len(s)))]

\* rsplit_once(in_string, '/') -> (Option<String>, String)
rsplit_once(s) ==
    IF find(s) = 0
    THEN [path |-> None, key |-> s]
    ELSE [path |-> Some(SubSeq(s, 1, rfind(s) - 1)), key |-> SubSeq(s, rfind(s) + 1, Len(s))]

\* format!("{}/{}", a, b)
format_slash(a, b) == a \o <<SEP>> \o b
\* format!("{}{}", a, b)
format_cat(a, b) == a \o b

-----------------------------------------------------------------------------
(* CfgMap                                                                  *)

CfgMap(im, d) == [internal_map |-> im, default |-> d]

EmptyHashMap == [k \in {} |-> IntV(0)]

new == CfgMap(EmptyHashMap, <<>>)

with_default(path) == CfgMap(EmptyHashMap, path \o <<SEP>>)

\* HashMap::get / HashMap::get_mut
hm_get(im, k) == IF k \in DOMAIN im THEN Some(im[k]) ELSE None

\* an insert that rebuilds the map with the new entry alone
hm_insert_alone(im, k, v) == [x \in {k} |-> v]

\* HashMap::insert: the map after the insertion
hm_insert(im, k, v) == [x \in (DOMAIN im) \cup {k} |-> IF x = k THEN v ELSE im[x]]

RECURSIVE get(_, _)
get(self, k) ==
    LET ht == split_once(k) IN
    IF is_none(ht.t)
    THEN hm_get(self.internal_map, k)
    ELSE LET e == hm_get(self.internal_map, ht.h) IN
         IF is_none(e) THEN None
         ELSE LET sub == as_map(unwrap(e)) IN
              IF is_none(sub) THEN None
              ELSE get(unwrap(sub), unwrap(ht.t))

\* get_mut: the value the returned mutable reference points to
RECURSIVE get_mut(_, _)
get_mut(self, k) ==
    LET ht == split_once(k) IN
    IF is_none(ht.t)
    THEN hm_get(self.internal_map, k)
    ELSE LET e == hm_get(self.internal_map, ht.h) IN
         IF is_none(e) THEN None
         ELSE LET sub == as_map_mut(unwrap(e)) IN
              IF is_none(sub) THEN None
              ELSE get_mut(unwrap(sub), unwrap(ht.t))

\* The map after x is written through the mutable reference that
\* get_mut(k) returned (used only where get_mut(k) is Some): the reference
\* borrows through the same chain of nested maps get_mut walked.
RECURSIVE write_mut(_, _, _)
\* a write that rebuilds the map it writes to and loses its default
write_mut_lose_default(self, k, x) ==
    LET ht == split_once(k) IN
    IF is_none(ht.t)
    THEN CfgMap(hm_insert(self.internal_map, k, x), <<>>)
    ELSE LET sub == unwrap(as_map_mut(self.internal_map[ht.h])) IN
         CfgMap(hm_insert(self.internal_map, ht.h,
                          MapV(write_mut(sub, unwrap(ht.t), x))),
                <<>>)

write_mut(self, k, x) ==
    LET ht == split_once(k) IN
    IF is_none(ht.t)
    THEN CfgMap(hm_insert(self.internal_map, k, x), self.default)
    ELSE LET sub == unwrap(as_map_mut(self.internal_map[ht.h])) IN
         CfgMap(hm_insert(self.internal_map, ht.h,
                          MapV(write_mut(sub, unwrap(ht.t), x))),
                self.default)

contains_key(self, k) == is_some(get(self, k))

-----------------------------------------------------------------------------
(* Condition and Checkable                                                 *)

Condition(k, n, s, b, args) == [kind |-> k, n |-> n, s |-> s, b |-> b, args |-> args]
IsInt    == Condition("IsInt",   0, <<>>, FALSE, <<>>)
IsFloat  == Condition("IsFloat", 0, <<>>, FALSE, <<>>)
IsStr    == Condition("IsStr",   0, <<>>, FALSE, <<>>)
IsBool   == Condition("IsBool",  0, <<>>, FALSE, <<>>)
IsMap    == Condition("IsMap",   0, <<>>, FALSE, <<>>)
IsList   == Condition("IsList",  0, <<>>, FALSE, <<>>)
IsExactlyInt(n)   == Condition("IsExactlyInt",   n, <<>>, FALSE, <<>>)
IsExactlyFloat(x) == Condition("IsExactlyFloat", x, <<>>, FALSE, <<>>)
IsExactlyStr(s)   == Condition("IsExactlyStr",   0, s,    FALSE, <<>>)
IsExactlyBool(b)  == Condition("IsExactlyBool",  0, <<>>, b,     <<>>)
And(a, b) == Condition("And", 0, <<>>, FALSE, <<a, b>>)
Or(a, b)  == Condition("Or",  0, <<>>, FALSE, <<a, b>>)
Not(a)    == Condition("Not", 0, <<>>, FALSE, <<a>>)

\* Condition::execute(value).to_bool()
RECURSIVE execute(_, _)
execute(c, v) ==
    CASE c.kind = "IsInt"   -> v.tag = "Int"
      [] c.kind = "IsFloat" -> v.tag = "Float"
      [] c.kind = "IsStr"   -> v.tag = "Str"
      [] c.kind = "IsBool"  -> v.tag = "Bool"
      [] c.kind = "IsMap"   -> v.tag = "Map"
      [] c.kind = "IsList"  -> v.tag = "List"
      [] c.kind = "IsExactlyInt"   -> v.tag = "Int"   /\ v.n = c.n
      [] c.kind = "IsExactlyFloat" -> v.tag = "Float" /\ v.n = c.n
      [] c.kind = "IsExactlyStr"   -> v.tag = "Str"   /\ v.s = c.s
      [] c.kind = "IsExactlyBool"  -> v.tag = "Bool"  /\ v.b = c.b
      [] c.kind = "And" -> execute(c.args[1], v) /\ execute(c.args[2], v)
      [] c.kind = "Or"  -> execute(c.args[1], v) \/ execute(c.args[2], v)
      [] c.kind = "Not" -> ~execute(c.args[1], v)

\* impl Checkable for CfgValue
check_that(self, c) == execute(c, self)

\* Option::map_or(default, f)
map_or(o, default, c) == IF is_some(o) THEN check_that(unwrap(o), c) ELSE default

\* an absent value passes
check_that_ref_absent_passes(self, c) == map_or(self, TRUE, c)

\* impl Checkable for Option<&CfgValue>
check_that_ref(self, c) == map_or(self, FALSE, c)

\* impl Checkable for Option<&mut CfgValue>
check_that_mut(self, c) == map_or(self, FALSE, c)

-----------------------------------------------------------------------------
(* The operations that take &mut self: each yields the map after the call  *)
(* and the returned value.                                                 *)

Outcome(m, r) == [map |-> m, ret |-> r]

\* an insert that keeps the entry the key already has
insert_keep(self, k, v) ==
    Outcome(IF k \in DOMAIN self.internal_map THEN self
            ELSE CfgMap(hm_insert(self.internal_map, k, v), self.default),
            Ok(hm_get(self.internal_map, k)))

\* an insert that forgets the previous value
insert_forget(self, k, v) ==
    Outcome(CfgMap(hm_insert(self.internal_map, k, v), self.default), Ok(None))

\* HashMap::insert on self.internal_map: Ok(previous value)
insert(self, k, v) ==
    Outcome(CfgMap(hm_insert(self.internal_map, k, v), self.default),
            Ok(hm_get(self.internal_map, k)))

RECURSIVE add(_, _, _)
\* an add that falls back to this map when the parent is no map
add_fallback(self, k, v) ==
    LET pk == rsplit_once(k) IN
    IF is_none(pk.path)
    THEN insert(self, pk.key, v)
    ELSE LET subtree == get_mut(self, unwrap(pk.path)) IN
         IF check_that_mut(subtree, IsMap)
         THEN LET inner == add(unwrap(as_map_mut(unwrap(subtree))), pk.key, v) IN
              Outcome(write_mut(self, unwrap(pk.path), MapV(inner.map)), inner.ret)
         ELSE insert(self, pk.key, v)

add(self, k, v) ==
    LET pk == rsplit_once(k) IN
    IF is_none(pk.path)
    THEN insert(self, pk.key, v)
    ELSE LET subtree == get_mut(self, unwrap(pk.path)) IN
         IF check_that_mut(subtree, IsMap)
         THEN LET inner == add(unwrap(as_map_mut(unwrap(subtree))), pk.key, v) IN
              Outcome(write_mut(self, unwrap(pk.path), MapV(inner.map)), inner.ret)
         ELSE Outcome(self, Err)

\* a get_option that looks at the default path first
get_option_default_first(self, cat, option) ==
    LET fullkey == format_slash(cat, option)
        default == format_cat(self.default, option)
    IN  or(get(self, default), get(self, fullkey))

get_option(self, cat, option) ==
    LET fullkey == format_slash(cat, option)
        default == format_cat(self.default, option)
    IN  or(get(self, fullkey), get(self, default))

\* a replace that returns the value and leaves it in place
replace_noop(self, k, to) == Outcome(self, get_mut(self, k))

\* mem::replace through the reference get_mut(k) returned
replace(self, k, to) == Outcome(write_mut(self, k, to), get_mut(self, k))

\* an update_option that tries the default path first
update_option_default_first(self, cat, option, to) ==
    LET fullkey == format_slash(cat, option)
        default == format_cat(self.default, option)
    IN  IF is_some(get_mut(self, default)) THEN replace(self, default, to)
        ELSE IF is_some(get_mut(self, fullkey)) THEN replace(self, fullkey, to)
        ELSE Outcome(self, None)

\* an update_option that adds the option at the default path when it is missing
update_option_upsert(self, cat, option, to) ==
    LET fullkey == format_slash(cat, option)
        default == format_cat(self.default, option)
    IN  IF is_some(get_mut(self, fullkey)) THEN replace(self, fullkey, to)
        ELSE IF is_some(get_mut(self, default)) THEN replace(self, default, to)
        ELSE Outcome(add(self, default, to).map, None)

update_option(self, cat, option, to) ==
    LET fullkey == format_slash(cat, option)
        default == format_cat(self.default, option)
    IN  IF is_some(get_mut(self, fullkey)) THEN replace(self, fullkey, to)
        ELSE IF is_some(get_mut(self, default)) THEN replace(self, default, to)
        ELSE Outcome(self, None)

-----------------------------------------------------------------------------
(* The inputs a client passes                                              *)

\* the segments well-formed paths are made of
Segs == {<<"a">>, <<"b">>}

\* paths with an empty segment: a leading, a trailing and a doubled separator
Malformed == {<<"/", "a">>, <<"a", "/">>, <<"a", "/", "/", "a">>}

RECURSIVE join(_)
join(ss) == IF Len(ss) = 1 THEN ss[1] ELSE ss[1] \o <<SEP>> \o join(Tail(ss))

SegSeqs(n) == UNION {[1..k -> Segs] : k \in 1..n}

\* every well-formed path of at most MaxSegs segments, and the malformed ones
Paths == {join(ss) : ss \in SegSeqs(MaxSegs)} \cup Malformed

Categories == Segs
Options == Segs

\* arguments of with_default
DefaultArgs == {<<"a">>, <<"a", "/">>}

Leaves == {IntV(0), IntV(1)}

\* maps a client builds with new() or with_default() and one add
InputMaps == {new, add(new, <<"a">>, IntV(1)).map}

Values == Leaves \cup {MapV(m) : m \in InputMaps}

RECURSIVE SumOver(_, _)
RECURSIVE Entries(_)
\* the number of entries of a map, nested maps included
Entries(m) == SumOver(m.internal_map, DOMAIN m.internal_map)
SumOver(im, ks) ==
    IF ks = {} THEN 0
    ELSE LET k == CHOOSE x \in ks : TRUE IN
         1 + (IF is_map(im[k]) THEN Entries(im[k].m[1]) ELSE 0) + SumOver(im, ks \ {k})

\* conditions: a leaf, or a combinator over a shallower condition
LeafConds == {IsInt, IsMap, IsExactlyInt(1)}

RECURSIVE CondsOfDepth(_)
CondsOfDepth(d) ==
    IF d = 0 THEN LeafConds
    ELSE LET sub == CondsOfDepth(d - 1) IN
         LeafConds \cup {Not(c) : c \in sub}
                   \cup {And(c, l) : c \in sub, l \in LeafConds}
                   \cup {Or(c, l) : c \in sub, l \in LeafConds}

Conds == CondsOfDepth(MaxCondDepth)

CheckValues == Leaves \cup {FloatV(0), StrV(<<"a">>), BoolV(TRUE), MapV(new), ListV(<<IntV(0)>>)}

Subjects == {None} \cup {Some(v) : v \in CheckValues}

-----------------------------------------------------------------------------
(* The map under its client                                                *)

NoCheck == /\ subject = None
           /\ condition = IsInt
           /\ verdict = None

\* the record of "the last call" when no result is held
NoCall == /\ op = "idle"
          /\ category = <<>>
          /\ key = <<>>
          /\ value = IntV(0)
          /\ ret = None

Init ==
    /\ ctor \in {None} \cup {Some(p) : p \in DefaultArgs}
    /\ cmap = IF is_none(ctor) THEN new ELSE with_default(unwrap(ctor))
    /\ old = cmap
    /\ NoCall
    /\ NoCheck

Called(name, c, k, v, out) ==
    /\ op = "idle"
    /\ op' = name
    /\ category' = c
    /\ key' = k
    /\ value' = v
    /\ old' = cmap
    /\ cmap' = out.map
    /\ ret' = out.ret
    /\ UNCHANGED <<ctor, subject, condition, verdict>>

Add(k, v) ==
    /\ op = "idle"
    /\ LET out == add(cmap, k, v) IN
       /\ Entries(out.map) <= MaxEntries
       /\ Called("add", <<>>, k, v, out)

Get(k) == Called("get", <<>>, k, IntV(0), Outcome(cmap, get(cmap, k)))

GetMut(k) == Called("get_mut", <<>>, k, IntV(0), Outcome(cmap, get_mut(cmap, k)))

ContainsKey(k) ==
    Called("contains_key", <<>>, k, IntV(0), Outcome(cmap, contains_key(cmap, k)))

GetOption(c, o) ==
    Called("get_option", c, o, IntV(0), Outcome(cmap, get_option(cmap, c, o)))

UpdateOption(c, o, v) ==
    /\ op = "idle"
    /\ LET out == update_option(cmap, c, o, v) IN
       /\ Entries(out.map) <= MaxEntries
       /\ Called("update_option", c, o, v, out)

\* The caller lets go of what the last call returned (a reference into the
\* map borrows it, so no other call can be made while it is held).
Release ==
    /\ op # "idle"
    /\ op' = "idle"
    /\ category' = <<>>
    /\ key' = <<>>
    /\ value' = IntV(0)
    /\ ret' = None
    /\ old' = cmap
    /\ UNCHANGED <<cmap, ctor, subject, condition, verdict>>

Next ==
    \/ \E k \in Paths, v \in Values : Add(k, v)
    \/ \E k \in Paths : Get(k)
    \/ \E k \in Paths : GetMut(k)
    \/ \E k \in Paths : ContainsKey(k)
    \/ \E c \in Categories, o \in Options : GetOption(c, o)
    \/ \E c \in Categories, o \in Options, v \in Values : UpdateOption(c, o, v)
    \/ Release

Spec == Init /\ [][Next]_vars

-----------------------------------------------------------------------------
(* check_that on its own: the inputs are drawn, then the call is made      *)

InitCheck ==
    /\ ctor = None
    /\ cmap = new
    /\ old = new
    /\ NoCall
    /\ subject \in Subjects
    /\ condition \in Conds
    /\ verdict = None

CheckThatRef ==
    /\ op = "idle"
    /\ op' = "check_that_ref"
    /\ verdict' = Some(check_that_ref(subject, condition))
    /\ UNCHANGED <<cmap, ctor, old, category, key, value, ret, subject, condition>>

CheckThatMut ==
    /\ op = "idle"
    /\ op' = "check_that_mut"
    /\ verdict' = Some(check_that_mut(subject, condition))
    /\ UNCHANGED <<cmap, ctor, old, category, key, value, ret, subject, condition>>

NextCheck == CheckThatRef \/ CheckThatMut

SpecCheck == InitCheck /\ [][NextCheck]_vars

TypeOK == op \in {"idle", "add", "get", "get_mut", "contains_key",
                  "get_option", "update_option", "check_that_ref", "check_that_mut"}

-----------------------------------------------------------------------------
(* What the properties are stated with: a path as its list of segments,    *)
(* and the resolution of a list of segments by successive key descent.     *)

HasSep(p) == \E i \in 1..Len(p) : p[i] = SEP

RECURSIVE Segments(_)
Segments(p) ==
    IF ~HasSep(p) THEN <<p>>
    ELSE LET i == CHOOSE i \in 1..Len(p) : p[i] = SEP /\ \A j \in 1..(i-1) : p[j] # SEP
         IN  <<SubSeq(p, 1, i - 1)>> \o Segments(SubSeq(p, i + 1, Len(p)))

\* the segments of everything before the last separator
ParentSegs(p) == SubSeq(Segments(p), 1, Len(Segments(p)) - 1)

RECURSIVE Resolve(_, _)
Resolve(m, segs) ==
    IF segs[1] \notin DOMAIN m.internal_map THEN None
    ELSE IF Len(segs) = 1 THEN Some(m.internal_map[segs[1]])
    ELSE IF m.internal_map[segs[1]].tag # "Map" THEN None
    ELSE Resolve(m.internal_map[segs[1]].m[1], Tail(segs))

ResolvesToMap(m, segs) == is_some(Resolve(m, segs)) /\ unwrap(Resolve(m, segs)).tag = "Map"

\* add's precondition: no separator, or the parent path resolves to a Map
ParentIsMap(m, p) == ~HasSep(p) \/ ResolvesToMap(m, ParentSegs(p))

IsPrefix(a, b) == Len(a) <= Len(b) /\ SubSeq(b, 1, Len(a)) = a

\* the two paths of get_option / update_option for the last call
FullKey == category \o <<SEP>> \o key
DefaultPrefix == IF is_none(ctor) THEN <<>> ELSE unwrap(ctor) \o <<SEP>>
DefaultKey == DefaultPrefix \o key

-----------------------------------------------------------------------------
(* Properties                                                              *)

\* C1: round trip of add and get. When p has no separator, or the parent
\* path of p resolves to a Map, add(p, v) succeeds and get(p) on the map
\* right after the call returns exactly v.
C1_AddGetRoundTrip ==
    (op = "add" /\ ParentIsMap(old, key))
        => (is_ok(ret) /\ get(cmap, key) = Some(value))

\* an add three segments deep that overwrote a different value
C1_Witness ==
    /\ op = "add"
    /\ Len(Segments(key)) = 3
    /\ is_ok(ret)
    /\ is_some(get(old, key))
    /\ get(old, key) # Some(value)

\* C2: add(p, v) with a separator in p fails whenever the parent path does
\* not resolve or resolves to a value that is not a Map, and creates no
\* intermediate map: no prefix of the parent path that was absent exists
\* afterwards.
C2_AddNeedsParent ==
    (op = "add" /\ HasSep(key) /\ ~ResolvesToMap(old, ParentSegs(key)))
        => /\ ret = Err
           /\ \A i \in 1..Len(ParentSegs(key)) :
                  is_none(Resolve(old, SubSeq(ParentSegs(key), 1, i)))
                      => is_none(Resolve(cmap, SubSeq(ParentSegs(key), 1, i)))

\* a failed add below an existing map whose next segment is absent
C2_Witness ==
    /\ op = "add"
    /\ ret = Err
    /\ Len(Segments(key)) = 3
    /\ ResolvesToMap(old, SubSeq(Segments(key), 1, 1))
    /\ is_none(Resolve(old, ParentSegs(key)))
    /\ is_none(Resolve(cmap, ParentSegs(key)))

\* C3: add returns the previous value. With no separator in k, or with the
\* parent of the path resolving to a Map, add returns Ok(Some(old value))
\* when the final key was present and Ok(None) when it was absent.
C3_AddReturnsPrevious ==
    (op = "add" /\ ParentIsMap(old, key))
        => ret = Ok(Resolve(old, Segments(key)))

\* a separator-free add that overwrote a key and returned its old value
C3_Witness ==
    /\ op = "add"
    /\ ~HasSep(key)
    /\ key \in DOMAIN old.internal_map
    /\ ret = Ok(Some(old.internal_map[key]))
    /\ old.internal_map[key] # value

\* C4: get_option(category, option) returns get("category/option") when it
\* resolves, otherwise get(D + option), D being empty for new() and
\* path + "/" for with_default(path); it is None only when both miss, and
\* with the empty prefix the fallback is the root key option.
C4_GetOptionFallback ==
    op = "get_option"
        => /\ ret = IF is_some(get(cmap, FullKey)) THEN get(cmap, FullKey)
                    ELSE get(cmap, DefaultKey)
           /\ is_none(ret) <=> (is_none(get(cmap, FullKey)) /\ is_none(get(cmap, DefaultKey)))
           /\ (is_none(ctor) /\ is_none(get(cmap, FullKey)) /\ ~HasSep(key))
                  => ret = hm_get(cmap.internal_map, key)

\* both paths resolve, to different values, and the category's is returned
C4_Witness ==
    /\ op = "get_option"
    /\ is_some(get(cmap, FullKey))
    /\ is_some(get(cmap, DefaultKey))
    /\ get(cmap, FullKey) # get(cmap, DefaultKey)
    /\ ret = get(cmap, FullKey)

\* the category path and the default path name places of the tree that do
\* not overlap: neither list of segments is a prefix of the other
Apart(p, q) == ~IsPrefix(Segments(p), Segments(q)) /\ ~IsPrefix(Segments(q), Segments(p))

\* C5 as stated: update_option replaces the value at the first path that
\* resolves, category path before default path, and returns the value that
\* was there; when the category path resolves, the value at the default
\* path is not replaced.
C5_Original ==
    op = "update_option"
        => /\ is_some(get(old, FullKey))
                => /\ ret = get(old, FullKey)
                   /\ get(cmap, FullKey) = Some(value)
                   /\ get(cmap, DefaultKey) = get(old, DefaultKey)
           /\ (is_none(get(old, FullKey)) /\ is_some(get(old, DefaultKey)))
                => /\ ret = get(old, DefaultKey)
                   /\ get(cmap, DefaultKey) = Some(value)

\* C5, amended: as C5, but the value at the default path is left as it was
\* only when the default path does not overlap the category path (the two
\* are different and neither is a segment-prefix of the other).
C5_UpdateFirstResolving ==
    op = "update_option"
        => /\ is_some(get(old, FullKey))
                => /\ ret = get(old, FullKey)
                   /\ get(cmap, FullKey) = Some(value)
                   /\ Apart(FullKey, DefaultKey)
                          => get(cmap, DefaultKey) = get(old, DefaultKey)
           /\ (is_none(get(old, FullKey)) /\ is_some(get(old, DefaultKey)))
                => /\ ret = get(old, DefaultKey)
                   /\ get(cmap, DefaultKey) = Some(value)

\* both paths resolved, apart and to different values; the category's one
\* was replaced by a new value and the default's one kept
C5_Witness ==
    /\ op = "update_option"
    /\ is_some(get(old, FullKey))
    /\ is_some(get(old, DefaultKey))
    /\ Apart(FullKey, DefaultKey)
    /\ get(old, FullKey) # get(old, DefaultKey)
    /\ get(old, FullKey) # Some(value)
    /\ get(old, DefaultKey) # Some(value)
    /\ get(cmap, FullKey) = Some(value)

\* C6: update_option never adds. When neither path resolves it returns
\* None and the whole map, default prefix included, is as before.
C6_UpdateNeverAdds ==
    (op = "update_option" /\ is_none(get(old, FullKey)) /\ is_none(get(old, DefaultKey)))
        => (ret = None /\ cmap = old)

\* a missed update_option of a Map value on a map that has entries and
\* whose default path could have been added (its parent being there)
C6_Witness ==
    /\ op = "update_option"
    /\ ret = None
    /\ DOMAIN old.internal_map # {}
    /\ value.tag = "Map"
    /\ ParentIsMap(old, DefaultKey)
    /\ ParentIsMap(old, FullKey)

\* C7 as stated: after update_option(category, option, v) returns Some,
\* get_option(category, option) returns exactly v, Map values included.
C7_Original ==
    (op = "update_option" /\ is_some(ret))
        => get_option(cmap, category, key) = Some(value)

\* C7, amended: after update_option(category, option, v) returns Some,
\* get_option(category, option) returns exactly v whenever v is not a Map,
\* or the category path resolved before the call, or the category path
\* still does not resolve after it.
C7_UpdateThenGetOption ==
    (/\ op = "update_option"
     /\ is_some(ret)
     /\ \/ value.tag # "Map"
        \/ is_some(get(old, FullKey))
        \/ is_none(get(cmap, FullKey)))
        => get_option(cmap, category, key) = Some(value)

\* a non-empty Map written at the default path, the category path missing
\* before and after
C7_Witness ==
    /\ op = "update_option"
    /\ is_some(ret)
    /\ value.tag = "Map"
    /\ DOMAIN value.m[1].internal_map # {}
    /\ is_none(get(old, FullKey))
    /\ is_none(get(cmap, FullKey))
    /\ ret # Some(value)
    /\ get_option(cmap, category, key) = Some(value)

EndsInOneSep(d) ==
    /\ Len(d) >= 1
    /\ d[Len(d)] = SEP
    /\ Len(d) >= 2 => d[Len(d) - 1] # SEP

\* C8 as stated: a map made by with_default(path), for any path, stores a
\* prefix ending in exactly one separator, a map made by new() stores the
\* empty prefix, and no operation changes the stored prefix.
C8_Original ==
    /\ is_some(ctor) => EndsInOneSep(cmap.default)
    /\ is_none(ctor) => cmap.default = <<>>
    /\ cmap.default = old.default

\* C8, amended: a map made by with_default(path) stores path followed by
\* one separator, which ends in exactly one separator when path does not
\* itself end in a separator; a map made by new() stores the empty prefix;
\* no operation changes the stored prefix.
C8_DefaultPrefix ==
    /\ is_some(ctor)
           => /\ cmap.default = unwrap(ctor) \o <<SEP>>
              /\ (unwrap(ctor) = <<>> \/ unwrap(ctor)[Len(unwrap(ctor))] # SEP)
                     => EndsInOneSep(cmap.default)
    /\ is_none(ctor) => cmap.default = <<>>
    /\ cmap.default = old.default

\* a map made by with_default whose tree an update_option has changed
C8_Witness ==
    /\ is_some(ctor)
    /\ op = "update_option"
    /\ is_some(ret)
    /\ cmap.internal_map # old.internal_map
    /\ EndsInOneSep(cmap.default)

\* the path has an absent segment, or a segment before its last that is no Map
Broken(m, segs) ==
    \E i \in 1..Len(segs) :
        \/ is_none(Resolve(m, SubSeq(segs, 1, i)))
        \/ i < Len(segs) /\ unwrap(Resolve(m, SubSeq(segs, 1, i))).tag # "Map"

\* C9: get(p) is None for every path with an absent segment or with a
\* segment other than the last that is not a Map; the descent goes segment
\* by segment from the left; contains_key(p) is true exactly when get(p)
\* is Some.
C9_GetDescends ==
    /\ op \in {"get", "get_mut"}
           => /\ Broken(cmap, Segments(key)) => ret = None
              /\ ret = Resolve(cmap, Segments(key))
    /\ op = "contains_key"
           => /\ ret = is_some(get(cmap, key))
              /\ ret = ~Broken(cmap, Segments(key))

\* a get of three segments stopped by a second segment that is no Map
C9_Witness ==
    /\ op = "get"
    /\ Len(Segments(key)) = 3
    /\ ResolvesToMap(cmap, SubSeq(Segments(key), 1, 1))
    /\ is_some(Resolve(cmap, SubSeq(Segments(key), 1, 2)))
    /\ ~ResolvesToMap(cmap, SubSeq(Segments(key), 1, 2))
    /\ ret = None

\* C10: check_that on an absent lookup result is false for every
\* condition, negations included; on a present result it is check_that of
\* the referenced value.
C10_AbsentFailsAll ==
    op \in {"check_that_ref", "check_that_mut"}
        => /\ is_none(subject) => verdict = Some(FALSE)
           /\ is_some(subject) => verdict = Some(check_that(unwrap(subject), condition))

\* an absent result checked against a negation that every value satisfies
C10_Witness ==
    /\ op = "check_that_ref"
    /\ subject = None
    /\ condition.kind = "Not"
    /\ \A v \in CheckValues : check_that(v, condition)
    /\ verdict = Some(FALSE)

\* the segments of each path a client passes
PathSegs == [q \in Paths |-> Segments(q)]

\* C11: frame of add. add(p, v) changes at most the entry at p: for every
\* path q such that neither of p and q is a segment-prefix of the other,
\* get(q) returns the same before and after the call; and when add fails,
\* the whole map is the map before the call.
C11_AddFrame ==
    op = "add"
        => /\ ret = Err => cmap = old
           /\ \/ cmap = old
              \/ LET p == Segments(key) IN
                 \A q \in Paths :
                     (~IsPrefix(p, PathSegs[q]) /\ ~IsPrefix(PathSegs[q], p))
                         => get(cmap, q) = get(old, q)

\* a successful add two segments deep that changed the map next to a
\* sibling entry, which is still there
C11_Witness ==
    /\ op = "add"
    /\ is_ok(ret)
    /\ cmap # old
    /\ Len(Segments(key)) = 2
    /\ \E q \in Paths :
           /\ Apart(key, q)
           /\ ParentSegs(q) = ParentSegs(key)
           /\ is_some(get(old, q))
           /\ get(cmap, q) = get(old, q)

====
